---- MODULE Spec2Model ----
(***************************************************************************)
(* Jal-Drishti backend: the frame scheduler (FrameScheduler.run) driving a *)
(* frame source, the raw callback, the blocking ML call and the Safe-Mode  *)
(* state machine.                                                          *)
(*                                                                         *)
(* Time is discrete: one second is TicksPerSecond ticks.  time.time() is   *)
(* the variable now.  Only the three blocking operations of the loop let   *)
(* time pass: waiting for the source's next frame, the call                *)
(* ml_module.run_inference(frame), and time.sleep().  The scheduler is     *)
(* configured as app/main.py configures it: ml_module, result_callback and *)
(* raw_callback are all present and simulate_processing_delay is 0.        *)
(***************************************************************************)
EXTENDS Integers, Sequences, FiniteSets, TLC

\* ---------------------------------------------------------------- bounds
TicksPerSecond == 2    \* clock resolution
MaxFrames == 10        \* frames one source session yields at most
MaxReadDelay == 1      \* longest wait for the next frame, in ticks
MaxLatency == 3        \* longest inference call, in ticks
MaxOversleep == 1      \* time.sleep() may return this many ticks late
MaxSinkFailures == 1   \* callback calls that raise in one run
MaxInject == 11        \* frames the phone source takes in
MaxInvalid == 1        \* injected objects that are not ndarrays
MaxStops == 2          \* stop() calls on a source
MaxFileFrames == 3     \* frames in the video file
MaxNoneFrames == 1     \* cap.read() results (True, None) in one session
MaxEngineErrors == 1   \* calls during which engine.infer fails inside
MaxClients == 3        \* clients that connect to /ws/stream
MaxDims == 4           \* axes of an ndarray given to the inference stage
MaxBoxes == 2          \* boxes the detector reports for one frame
MaxEngines == 2        \* JalDrishtiEngine objects constructed in one run
MaxCalls == 2          \* run_inference calls on the scheduler thread
MaxSubscribers == 2    \* clients that connect to /ws/raw_feed
MaxBroadcasts == 2     \* raw frames handed to raw_frame_callback

QueueMax == 10         \* queue.Queue(maxsize=10)

\* target_fps values whose frame interval is a whole number of ticks
TargetFpsValues == {f \in 1..TicksPerSecond : TicksPerSecond % f = 0}

\* str(e) of the exceptions run_inference lets through
Reasons == {"Engine not initialized", "inference error"}

None == "None"

VARIABLES
    pc,                 \* position of the scheduler thread in run()
    now,                \* time.time()
    attrs,              \* attribute names of the FrameScheduler instance
    target_fps,         \* self.target_fps
    in_safe_mode,       \* self.in_safe_mode
    safe_mode_reason,   \* self.safe_mode_reason
    last_recovery_check,\* self.last_recovery_check
    start_time,         \* local start_time of run()
    frame_id,           \* frame_id of the frame of the current iteration
    drift,              \* drift computed for that frame
    frames_processed_in_window,
    last_fps_log_time,
    current_fps,
    srcNext,            \* the source generator's next frame_id
    rawLog,             \* frame ids handed to raw_callback, in call order
    emitted,            \* envelopes handed to result_callback by the last step
    inflight,           \* run_inference calls started and not yet finished
    obs,                \* observations of the run used to state properties
    fault,              \* shutdown signal and failures around the scheduler
    input_source,       \* INPUT_SOURCE as read by startup_event
    phone,              \* the PhoneCameraSource instance and its reader
    video,              \* the RawVideoSource instance and its reader
    ws,                 \* active_connection and the /ws/stream handlers
    ml,                 \* the last run of the inference stage
    svc,                \* MLService.engine and the threads that build it
    vsm                 \* the VideoStreamManager and its broadcasts

schedVars == <<pc, now, attrs, target_fps, in_safe_mode, safe_mode_reason,
               last_recovery_check, start_time, frame_id, drift,
               frames_processed_in_window, last_fps_log_time, current_fps>>
envVars == <<srcNext, rawLog, emitted, inflight, obs>>
srcVars == <<input_source, phone, video>>
auxVars == <<ws, ml, svc, vsm>>
vars == <<schedVars, envVars, fault, srcVars, auxVars>>

\* ------------------------------------------------------- FrameScheduler
\* self.frame_interval = 1.0 / target_fps, in ticks
frame_interval == TicksPerSecond \div target_fps

\* self.recovery_interval = 5.0 seconds
recovery_interval == 5 * TicksPerSecond

\* attributes bound by __init__, plus the methods of the class
InitAttrs == {"video_source", "target_fps", "frame_interval",
              "simulate_processing_delay", "ml_module", "result_callback",
              "raw_callback", "run"}

\* attributes bound at the top of run()
RunAttrs == {"in_safe_mode", "safe_mode_reason", "last_recovery_check",
             "recovery_interval"}

\* drift = (current_time - start_time) - frame_id * frame_interval
Drift(current_time, st, fid) == (current_time - st) - fid * frame_interval

\* variant: the drop test compares against two frame intervals
DriftExceeded_TwoIntervals(d) == d > 2 * frame_interval

\* if drift > self.frame_interval: dropped from ML
DriftExceeded(d) == d > frame_interval

\* variant: the recovery check is due after one frame interval
RecoveryDue_FrameInterval(current_time, lrc) ==
    current_time - lrc >= frame_interval

\* if current_time - self.last_recovery_check >= self.recovery_interval
RecoveryDue(current_time, lrc) == current_time - lrc >= recovery_interval

\* if ml_duration > 0.2  (seconds)
SlowInference(ml_duration) == ml_duration * 5 > TicksPerSecond

\* variant: the raw frame is not emitted while Safe-Mode is active
RawCallback_NotInSafeMode(log, fid) ==
    IF in_safe_mode THEN log ELSE Append(log, fid)

\* self.raw_callback(frame, frame_id, timestamp)
RawCallback(log, fid) == Append(log, fid)

\* envelopes handed to result_callback
SafeModeStatus(reason) ==
    [type |-> "system", status |-> "safe_mode",
     message |-> <<"System in Safe Mode: ", reason>>]
SafeModeEntered(reason) ==
    [type |-> "system", status |-> "safe_mode", message |-> <<reason>>]
Recovered ==
    [type |-> "system", status |-> "recovered",
     message |-> <<"System recovered">>]
DataEnvelope(fid, fps, latency) ==
    [type |-> "data", status |-> "success",
     message |-> <<"New frame data", fid, fps, latency>>]

\* result = self.ml_module.run_inference(frame): the call is entered
CallStarted(n) == n + 1

\* variant: a call that raised is not counted as finished
CallFinished_Forgotten(n) == n

\* the call has returned or raised: the thread is back in run()
CallFinished(n) == n - 1

\* FPS calculation at the end of every iteration (every 1 second)
FpsDue(t, lastLog) == t - lastLog >= TicksPerSecond

\* whether the result callback's consumer has been told that inference is
\* unavailable, after the envelopes seq: the latest "safe_mode" or
\* "recovered" System envelope decides, open if there is none in seq
Unavailable(open, seq) ==
    LET S == {i \in 1..Len(seq) : seq[i].type = "system"}
    IN  IF S = {} THEN open
        ELSE LET last == CHOOSE i \in S : \A j \in S : j <= i
             IN  seq[last].status = "safe_mode"

\* initial observations
Obs0 == [anySuccess |-> FALSE,  \* some inference call has returned normally
         outcome |-> "none",    \* how the latest finished call ended
         prevOutcome |-> "none",\* how the call before that one ended
         slow |-> FALSE,        \* the latest finished call took over 0.2 s
         nominal |-> TRUE,      \* no read delay, no oversleep, every call
                                \* succeeded faster than frame_interval
         exact |-> TRUE,        \* no read delay and no oversleep so far
         iter |-> "none",       \* what this iteration did with its frame:
                                \* "dropped", "gated" or "called"
         callInSafe |-> FALSE,  \* the latest call started in Safe-Mode
         safeCalls |-> 0,       \* calls started in Safe-Mode, counted to 2
         dataSent |-> FALSE,    \* a Data envelope carried this frame_id
         unavailable |-> FALSE, \* the latest System envelope was "safe_mode"
         lastSafeEvent |-> -1]  \* time of the latest failure that entered
                                \* Safe-Mode or call started in Safe-Mode

\* PhoneCameraSource.__init__, with the position of the thread iterating
\* read() and of the event-loop thread inside stop()
Phone0 == [pc |-> "idle",          \* idle, loop, get, yielded, ended
           running |-> FALSE,      \* self.running
           connected |-> FALSE,    \* self.connected
           frame_id |-> 0,         \* self._frame_id
           frame_queue |-> <<>>,   \* self.frame_queue, oldest first
           yields |-> <<>>,        \* frame ids yielded in this session
           invalid |-> 0,          \* of them, with an object not a frame
           accepted |-> 0,         \* ndarrays inject_frame has accepted
           got |-> <<>>,           \* the ndarrays read() has yielded
           stopPc |-> "idle",      \* idle, put: inside stop()
           stops |-> 0,            \* stop() calls so far
           stopped |-> FALSE,      \* stop() was called in this session
           raised |-> FALSE,       \* stop() or inject_frame has raised
           waitsAfterStop |-> 0]   \* timeouts since, counted to 2

\* RawVideoSource.__init__, with the position of the thread iterating
\* read()
Video0 == [pc |-> "idle",          \* idle, loop, yielded, ended
           stop |-> FALSE,         \* self._stop
           len |-> 0,              \* frames in the file
           pos |-> 0,              \* frames cap.read() has returned
           frame_id |-> 0,         \* local frame_id of read()
           yields |-> <<>>,        \* frame ids yielded in this session
           nones |-> 0,            \* (True, None) results in this session
           endedBy |-> "none",     \* open, eof, stop: why read() returned
           stops |-> 0]

\* no shutdown signalled, nothing has failed
Fault0 == [shutdown |-> FALSE,          \* _shutdown_event is set
           readsAfterShutdown |-> 0,    \* frames read since, counted to 2
           srcError |-> FALSE,          \* video_source.read() has raised
           sinkRaises |-> 0,            \* callbacks that have raised
           engineErrors |-> 0]          \* exceptions inside engine.infer

\* active_connection = None, and no client has connected to /ws/stream
Ws0 == [active_connection |-> 0,
        pc |-> [h \in 1..MaxClients |-> "new"],
        told |-> [h \in 1..MaxClients |-> None]]

\* no frame has been given to the inference stage
Ml0 == [pc |-> "idle", impl |-> None,
        image |-> [kind |-> None, shape |-> <<>>], boxes |-> <<>>,
        result |-> [raised |-> FALSE, state |-> None, max_confidence |-> 0,
                    detections |-> <<>>, error |-> None, models |-> 0]]

\* MLService.__init__: self.engine = None; no thread has started
Svc0 == [engine |-> 0, built |-> 0, calls |-> 0,
         pc |-> [t \in {"warmup", "scheduler"} |-> "idle"]]

\* VideoStreamManager.__init__: no subscriber, not shutting down, and no
\* raw frame has been handed to raw_frame_callback
Vsm0 == [active_connections |-> <<>>, is_shutting_down |-> FALSE,
         client |-> [c \in 1..MaxSubscribers |-> "new"],
         bc |-> [b \in 1..MaxBroadcasts |->
                    [pc |-> "none", copy |-> <<>>, i |-> 0,
                     sent |-> {}, failed |-> {}]]]

Init ==
    /\ pc = "init"
    /\ now = 0
    /\ attrs = InitAttrs
    /\ target_fps \in TargetFpsValues
    /\ in_safe_mode = FALSE
    /\ safe_mode_reason = None
    /\ last_recovery_check = 0
    /\ start_time = 0
    /\ frame_id = -1
    /\ drift = 0
    /\ frames_processed_in_window = 0
    /\ last_fps_log_time = 0
    /\ current_fps = 0
    /\ srcNext = 0
    /\ rawLog = <<>>
    /\ emitted = <<>>
    /\ inflight = 0
    /\ obs = Obs0
    /\ fault = Fault0
    /\ input_source = "unset"
    /\ phone = Phone0
    /\ video = Video0
    /\ ws = Ws0
    /\ ml = Ml0
    /\ svc = Svc0
    /\ vsm = Vsm0

\* run(): the statements before the loop
Run ==
    /\ pc = "init"
    /\ pc' = "read"
    /\ attrs' = attrs \cup RunAttrs
    /\ in_safe_mode' = FALSE
    /\ safe_mode_reason' = None
    /\ last_recovery_check' = 0
    /\ start_time' = now
    /\ frames_processed_in_window' = 0
    /\ last_fps_log_time' = now
    /\ current_fps' = 0
    /\ UNCHANGED <<now, target_fps, frame_id, drift, envVars, fault, srcVars, auxVars>>

\* the FPS block that ends an iteration, at time t with fpw frames counted
FpsUpdate(t, fpw) ==
    IF FpsDue(t, last_fps_log_time)
    THEN /\ current_fps' = fpw
         /\ frames_processed_in_window' = 0
         /\ last_fps_log_time' = t
    ELSE /\ current_fps' = current_fps
         /\ frames_processed_in_window' = fpw
         /\ last_fps_log_time' = last_fps_log_time

\* One pass of the loop head: the source yields (frame, fid, timestamp)
\* after delay ticks, the frame goes to the raw callback, drift is checked,
\* the Safe-Mode gate decides should_run_ml.  The step ends where the thread
\* next blocks: in run_inference ("infer"), in the pacing sleep ("pace"), or,
\* for a frame dropped from ML, in the next read ("read").
ReadFrame(delay) ==
    /\ pc = "read"
    /\ srcNext < MaxFrames
    /\ LET fid == srcNext
           timestamp == now + delay
           st == IF fid = 0 THEN timestamp ELSE start_time
           current_time == now + delay
           d == Drift(current_time, st, fid)
           due == RecoveryDue(current_time, last_recovery_check)
           should_run_ml == IF in_safe_mode THEN due ELSE TRUE
       IN  /\ now' = current_time
           /\ srcNext' = srcNext + 1
           /\ frame_id' = fid
           /\ start_time' = st
           /\ drift' = d
           /\ rawLog' = RawCallback(rawLog, fid)
           /\ IF DriftExceeded(d)
              THEN /\ pc' = "read"
                   /\ emitted' = <<>>
                   /\ FpsUpdate(current_time, frames_processed_in_window)
                   /\ UNCHANGED <<last_recovery_check, inflight>>
                   /\ obs' = [obs EXCEPT !.iter = "dropped",
                                 !.dataSent = FALSE,
                                 !.nominal = @ /\ delay = 0,
                                 !.exact = @ /\ delay = 0]
              ELSE /\ last_recovery_check' =
                          IF in_safe_mode /\ due THEN current_time
                          ELSE last_recovery_check
                   /\ emitted' = IF in_safe_mode /\ ~due
                                 THEN <<SafeModeStatus(safe_mode_reason)>>
                                 ELSE <<>>
                   /\ pc' = IF should_run_ml THEN "infer" ELSE "pace"
                   /\ inflight' = IF should_run_ml THEN CallStarted(inflight)
                                  ELSE inflight
                   /\ obs' = [obs EXCEPT
                                 !.iter = IF should_run_ml THEN "called"
                                          ELSE "gated",
                                 !.dataSent = FALSE,
                                 !.unavailable = Unavailable(@, emitted'),
                                 !.nominal = @ /\ delay = 0,
                                 !.exact = @ /\ delay = 0,
                                 !.callInSafe =
                                     IF should_run_ml THEN in_safe_mode
                                     ELSE @,
                                 !.safeCalls =
                                     IF should_run_ml /\ in_safe_mode /\ @ < 2
                                     THEN @ + 1 ELSE @,
                                 !.lastSafeEvent =
                                     IF should_run_ml /\ in_safe_mode
                                     THEN current_time ELSE @]
                   /\ UNCHANGED <<frames_processed_in_window,
                                  last_fps_log_time, current_fps>>
    /\ fault' = [fault EXCEPT !.readsAfterShutdown =
                                 IF fault.shutdown /\ @ < 2 THEN @ + 1 ELSE @]
    /\ UNCHANGED <<attrs, target_fps, in_safe_mode, safe_mode_reason, srcVars, auxVars>>

\* the source generator returns (end of file, stop()): the for loop ends
SourceEnd ==
    /\ pc = "read"
    /\ pc' = "done"
    /\ emitted' = <<>>
    /\ UNCHANGED <<now, attrs, target_fps, in_safe_mode, safe_mode_reason,
                   last_recovery_check, start_time, frame_id, drift,
                   frames_processed_in_window, last_fps_log_time, current_fps,
                   srcNext, rawLog, inflight, obs, fault, srcVars, auxVars>>

\* variant: a recovery keeps the reason of the failure
SuccessState_KeepsReason(active, reason, lrc) ==
    [active |-> FALSE, reason |-> reason, lrc |-> lrc]

\* variant: a success leaves Safe-Mode as it is
SuccessState_NoClear(active, reason, lrc) ==
    [active |-> active, reason |-> reason, lrc |-> lrc]

\* Safe-Mode state after run_inference returned: "if self.in_safe_mode:
\* in_safe_mode = False; safe_mode_reason = None"
SuccessState(active, reason, lrc) ==
    IF active
    THEN [active |-> FALSE, reason |-> None, lrc |-> lrc]
    ELSE [active |-> active, reason |-> reason, lrc |-> lrc]

\* variant: the data envelope is handed over before "recovered"
SuccessEnvelopes_DataFirst(active, fid, fps, ml_duration) ==
    <<DataEnvelope(fid, fps, ml_duration)>>
        \o (IF active THEN <<Recovered>> ELSE <<>>)

\* variant: the data envelope is handed to the callback twice
SuccessEnvelopes_DataTwice(active, fid, fps, ml_duration) ==
    (IF active THEN <<Recovered>> ELSE <<>>)
        \o <<DataEnvelope(fid, fps, ml_duration),
              DataEnvelope(fid, fps, ml_duration)>>

\* envelopes after run_inference returned: "recovered" if Safe-Mode was
\* active, then the data envelope
SuccessEnvelopes(active, fid, fps, ml_duration) ==
    (IF active THEN <<Recovered>> ELSE <<>>)
        \o <<DataEnvelope(fid, fps, ml_duration)>>

\* variant: a failure toggles Safe-Mode
FailureState_Toggle(active, reason, lrc, e, t) ==
    [active |-> ~active, reason |-> e, lrc |-> t]

\* Safe-Mode state after run_inference raised e at time t: "if not
\* self.in_safe_mode: in_safe_mode = True; safe_mode_reason = str(e);
\* last_recovery_check = time.time()"
FailureState(active, reason, lrc, e, t) ==
    IF ~active
    THEN [active |-> TRUE, reason |-> e, lrc |-> t]
    ELSE [active |-> active, reason |-> reason, lrc |-> lrc]

\* variant: every failure emits the safe_mode envelope
FailureEnvelopes_Always(active, e) == <<SafeModeEntered(e)>>

\* envelopes after run_inference raised e
FailureEnvelopes(active, e) ==
    IF ~active THEN <<SafeModeEntered(e)>> ELSE <<>>

\* result = self.ml_module.run_inference(frame) returns after d ticks
InferReturn(d) ==
    /\ pc = "infer"
    /\ LET s == SuccessState(in_safe_mode, safe_mode_reason,
                             last_recovery_check)
       IN  /\ in_safe_mode' = s.active
           /\ safe_mode_reason' = s.reason
           /\ last_recovery_check' = s.lrc
    /\ now' = now + d
    /\ inflight' = CallFinished(inflight)
    /\ emitted' = SuccessEnvelopes(in_safe_mode, frame_id, current_fps, d)
    /\ pc' = "pace"
    /\ obs' = [obs EXCEPT !.anySuccess = TRUE,
                          !.prevOutcome = obs.outcome,
                          !.outcome = "ok",
                          !.dataSent = TRUE,
                          !.unavailable = Unavailable(@, emitted'),
                          !.slow = SlowInference(d),
                          !.nominal = @ /\ d < frame_interval]
    /\ UNCHANGED <<attrs, target_fps, start_time, frame_id, drift,
                   frames_processed_in_window, last_fps_log_time, current_fps,
                   srcNext, rawLog, fault, srcVars, auxVars>>

\* variant: the exception of run_inference reaches the outer handler
AfterInferenceError_Propagates == "done"

\* "except Exception as e" around the ML block swallows the exception: the
\* iteration goes on with the pacing block
AfterInferenceError == "pace"

\* self.ml_module.run_inference(frame) raises e after d ticks
InferRaise(d, e) ==
    /\ pc = "infer"
    /\ LET s == FailureState(in_safe_mode, safe_mode_reason,
                             last_recovery_check, e, now + d)
       IN  /\ in_safe_mode' = s.active
           /\ safe_mode_reason' = s.reason
           /\ last_recovery_check' = s.lrc
    /\ now' = now + d
    /\ inflight' = CallFinished(inflight)
    /\ emitted' = FailureEnvelopes(in_safe_mode, e)
    /\ pc' = AfterInferenceError
    /\ obs' = [obs EXCEPT !.prevOutcome = obs.outcome,
                          !.outcome = "fail",
                          !.unavailable = Unavailable(@, emitted'),
                          !.slow = SlowInference(d),
                          !.nominal = FALSE,
                          !.lastSafeEvent =
                              IF ~in_safe_mode THEN now + d ELSE @]
    /\ UNCHANGED <<attrs, target_fps, start_time, frame_id, drift,
                   frames_processed_in_window, last_fps_log_time, current_fps,
                   srcNext, rawLog, fault, srcVars, auxVars>>

\* variant: the pacing sleep is always one whole frame interval
SleepDuration_Fixed(t, st, fid) == frame_interval

\* sleep_duration = (frame_id + 1) * frame_interval - (now - start_time)
SleepDuration(t, st, fid) == (fid + 1) * frame_interval - (t - st)

\* The end of an iteration that was not dropped from ML: count the frame,
\* sleep until the next frame's expected time if it lies ahead (time.sleep
\* may return oversleep ticks late), then the FPS block.
Pace(oversleep) ==
    /\ pc = "pace"
    /\ LET sleep_duration == SleepDuration(now, start_time, frame_id)
           woke == IF sleep_duration > 0
                   THEN now + sleep_duration + oversleep
                   ELSE now
       IN  /\ sleep_duration <= 0 => oversleep = 0
           /\ now' = woke
           /\ FpsUpdate(woke, frames_processed_in_window + 1)
    /\ pc' = "read"
    /\ emitted' = <<>>
    /\ obs' = [obs EXCEPT !.nominal = @ /\ oversleep = 0,
                          !.exact = @ /\ oversleep = 0]
    /\ UNCHANGED <<attrs, target_fps, in_safe_mode, safe_mode_reason,
                   last_recovery_check, start_time, frame_id, drift,
                   srcNext, rawLog, inflight, fault, srcVars, auxVars>>

\* variant: the handler retries the read
AfterSourceError_Retry == "read"

\* the outer "except Exception" is outside the for loop: run() returns
AfterSourceError == "done"

\* self.video_source.read() raises while the loop waits for the next frame
SourceError ==
    /\ pc = "read"
    /\ pc' = AfterSourceError
    /\ emitted' = <<>>
    /\ fault' = [fault EXCEPT !.srcError = TRUE]
    /\ UNCHANGED <<now, attrs, target_fps, in_safe_mode, safe_mode_reason,
                   last_recovery_check, start_time, frame_id, drift,
                   frames_processed_in_window, last_fps_log_time, current_fps,
                   srcNext, rawLog, inflight, obs, srcVars, auxVars>>

Next ==
    \/ Run
    \/ \E delay \in 0..MaxReadDelay : ReadFrame(delay)
    \/ SourceEnd
    \/ SourceError
    \/ \E d \in 0..MaxLatency : InferReturn(d)
    \/ \E d \in 0..MaxLatency, e \in Reasons : InferRaise(d, e)
    \/ \E oversleep \in 0..MaxOversleep : Pace(oversleep)

Spec == Init /\ [][Next]_vars

\* ------------------------------------------- shutdown (app/main.py)
\* shutdown_event(): _shutdown_event.set().  run() has no reference to the
\* event and tests nothing in its loop.
SetShutdown ==
    /\ ~fault.shutdown
    /\ fault' = [fault EXCEPT !.shutdown = TRUE]
    /\ UNCHANGED <<schedVars, envVars, srcVars, auxVars>>

NextShutdown ==
    \/ Next
    \/ SetShutdown

SpecShutdown == Init /\ [][NextShutdown]_vars

\* ------------------------------------------------- callbacks that raise
\* str(e) of an exception raised by result_callback (on_result ->
\* ws_server.broadcast -> asyncio.run_coroutine_threadsafe)
SinkReasons == {"Event loop is closed"}

\* raw_callback raises at the top of an iteration: the call is outside the
\* inner try, the outer handler ends the loop
RawCallbackRaises(delay) ==
    /\ pc = "read"
    /\ srcNext < MaxFrames
    /\ fault.sinkRaises < MaxSinkFailures
    /\ LET fid == srcNext
           current_time == now + delay
           st == IF fid = 0 THEN current_time ELSE start_time
       IN  /\ now' = current_time
           /\ srcNext' = srcNext + 1
           /\ frame_id' = fid
           /\ start_time' = st
           /\ drift' = Drift(current_time, st, fid)
           /\ rawLog' = RawCallback(rawLog, fid)
    /\ pc' = "done"
    /\ emitted' = <<>>
    /\ fault' = [fault EXCEPT !.sinkRaises = @ + 1]
    /\ obs' = [obs EXCEPT !.iter = "none", !.dataSent = FALSE]
    /\ UNCHANGED <<attrs, target_fps, in_safe_mode, safe_mode_reason,
                   last_recovery_check, frames_processed_in_window,
                   last_fps_log_time, current_fps, inflight, srcVars, auxVars>>

\* result_callback raises on the per-frame safe_mode status of a frame the
\* Safe-Mode gate refused: the call is outside the inner try as well
GateCallbackRaises(delay) ==
    /\ pc = "read"
    /\ srcNext < MaxFrames
    /\ fault.sinkRaises < MaxSinkFailures
    /\ in_safe_mode
    /\ LET fid == srcNext
           current_time == now + delay
           st == IF fid = 0 THEN current_time ELSE start_time
           d == Drift(current_time, st, fid)
       IN  /\ ~DriftExceeded(d)
           /\ ~RecoveryDue(current_time, last_recovery_check)
           /\ now' = current_time
           /\ srcNext' = srcNext + 1
           /\ frame_id' = fid
           /\ start_time' = st
           /\ drift' = d
           /\ rawLog' = RawCallback(rawLog, fid)
    /\ pc' = "done"
    /\ emitted' = <<>>
    /\ fault' = [fault EXCEPT !.sinkRaises = @ + 1]
    /\ obs' = [obs EXCEPT !.iter = "gated", !.dataSent = FALSE]
    /\ UNCHANGED <<attrs, target_fps, in_safe_mode, safe_mode_reason,
                   last_recovery_check, frames_processed_in_window,
                   last_fps_log_time, current_fps, inflight, srcVars, auxVars>>

\* run_inference returns and result_callback raises x inside the inner try,
\* on the "recovered" envelope (onRecovered, Safe-Mode was active) or on the
\* data envelope.  in_safe_mode is already False by then, so the handler
\* "except Exception as e" enters Safe-Mode with str(e) = x and calls
\* result_callback again, which raises again (the loop ends) or returns.
InferReturnCallbackRaises(d, x, onRecovered, again) ==
    /\ pc = "infer"
    /\ fault.sinkRaises < MaxSinkFailures
    /\ onRecovered => in_safe_mode
    /\ LET mid == SuccessState(in_safe_mode, safe_mode_reason,
                               last_recovery_check)
           s == FailureState(mid.active, mid.reason, mid.lrc, x, now + d)
           delivered == IF in_safe_mode /\ ~onRecovered
                        THEN <<Recovered>> ELSE <<>>
       IN  /\ in_safe_mode' = s.active
           /\ safe_mode_reason' = s.reason
           /\ last_recovery_check' = s.lrc
           /\ emitted' = delivered \o
                  (IF again THEN <<>>
                   ELSE FailureEnvelopes(mid.active, x))
    /\ now' = now + d
    /\ inflight' = CallFinished(inflight)
    /\ pc' = IF again THEN "done" ELSE "pace"
    /\ fault' = [fault EXCEPT !.sinkRaises = @ + 1]
    /\ obs' = [obs EXCEPT !.anySuccess = TRUE,
                          !.prevOutcome = obs.outcome,
                          !.outcome = "ok",
                          !.unavailable = Unavailable(@, emitted'),
                          !.slow = SlowInference(d),
                          !.nominal = FALSE,
                          !.lastSafeEvent = now + d]
    /\ UNCHANGED <<attrs, target_fps, start_time, frame_id, drift,
                   frames_processed_in_window, last_fps_log_time, current_fps,
                   srcNext, rawLog, srcVars, auxVars>>

\* run_inference raises e outside Safe-Mode and result_callback raises on
\* the safe_mode envelope: an exception inside the handler leaves the inner
\* try, the outer handler ends the loop
InferRaiseCallbackRaises(d, e) ==
    /\ pc = "infer"
    /\ fault.sinkRaises < MaxSinkFailures
    /\ ~in_safe_mode
    /\ LET s == FailureState(in_safe_mode, safe_mode_reason,
                             last_recovery_check, e, now + d)
       IN  /\ in_safe_mode' = s.active
           /\ safe_mode_reason' = s.reason
           /\ last_recovery_check' = s.lrc
    /\ now' = now + d
    /\ inflight' = CallFinished(inflight)
    /\ emitted' = <<>>
    /\ pc' = "done"
    /\ fault' = [fault EXCEPT !.sinkRaises = @ + 1]
    /\ obs' = [obs EXCEPT !.prevOutcome = obs.outcome,
                          !.outcome = "fail",
                          !.slow = SlowInference(d),
                          !.nominal = FALSE,
                          !.lastSafeEvent = now + d]
    /\ UNCHANGED <<attrs, target_fps, start_time, frame_id, drift,
                   frames_processed_in_window, last_fps_log_time, current_fps,
                   srcNext, rawLog, srcVars, auxVars>>

NextSink ==
    \/ Next
    \/ \E delay \in 0..MaxReadDelay : RawCallbackRaises(delay)
    \/ \E delay \in 0..MaxReadDelay : GateCallbackRaises(delay)
    \/ \E d \in 0..MaxLatency, x \in SinkReasons, onRecovered \in BOOLEAN,
          again \in BOOLEAN : InferReturnCallbackRaises(d, x, onRecovered, again)
    \/ \E d \in 0..MaxLatency, e \in Reasons : InferRaiseCallbackRaises(d, e)

SpecSink == Init /\ [][NextSink]_vars

\* ------------------------------------------- frame sources (app/video)
\* startup_event: INPUT_SOURCE selects the source the scheduler reads.  The
\* two sources share no state; each is explored in the deployment that
\* reads it.
Startup(src) ==
    /\ input_source = "unset"
    /\ input_source' = src
    /\ UNCHANGED <<schedVars, envVars, fault, auxVars, phone, video>>

\* what inject_frame is called with: an ndarray, an object that is not an
\* ndarray, or None
PhoneFrames == {"frame", "object", None}

\* the ndarrays the transport handler decodes, in the order it decodes them
FrameNames ==
    <<"frame0", "frame1", "frame2", "frame3", "frame4", "frame5", "frame6",
      "frame7", "frame8", "frame9", "frame10", "frame11", "frame12",
      "frame13", "frame14", "frame15">>

\* the ndarray decoded after k others
Frame(k) == IF k < Len(FrameNames) THEN FrameNames[k + 1] ELSE "frame"

\* isinstance(frame, np.ndarray) for an item of the queue
IsFrame(item) == item \notin {"object", None}

\* variant: the frame is put at the head of the queue
InjectOutcome_AtHead(q, frame) ==
    IF frame = None
    THEN [queue |-> q, accepted |-> FALSE]
    ELSE IF Len(q) < QueueMax
    THEN [queue |-> <<frame>> \o q, accepted |-> TRUE]
    ELSE [queue |-> q, accepted |-> FALSE]

\* frame_queue.put(frame, block=False) in inject_frame, after the None test
InjectOutcome_Unbounded(q, frame) ==
    IF frame = None
    THEN [queue |-> q, accepted |-> FALSE]
    ELSE [queue |-> Append(q, frame), accepted |-> TRUE]

InjectOutcome(q, frame) ==
    IF frame = None
    THEN [queue |-> q, accepted |-> FALSE]
    ELSE IF Len(q) < QueueMax
    THEN [queue |-> Append(q, frame), accepted |-> TRUE]
    ELSE [queue |-> q, accepted |-> FALSE]

\* inject_frame(frame), called on the event-loop thread; its return value
\* is InjectOutcome(...).accepted
InjectFrame(frame) ==
    /\ input_source = "phone"
    /\ phone.stopPc = "idle"
    /\ \/ phone.frame_id + Len(phone.frame_queue) < MaxInject
       \/ Len(phone.frame_queue) = QueueMax
    /\ frame = "object" => phone.invalid < MaxInvalid
    /\ LET item == IF frame = "frame" THEN Frame(phone.accepted) ELSE frame
           o == InjectOutcome(phone.frame_queue, item)
       IN  phone' = [phone EXCEPT
                         !.frame_queue = o.queue,
                         !.connected = IF o.accepted THEN TRUE ELSE @,
                         !.accepted = IF o.accepted /\ frame = "frame"
                                      THEN @ + 1 ELSE @,
                         !.invalid = IF frame = "object" THEN @ + 1 ELSE @]
    /\ UNCHANGED <<schedVars, envVars, fault, auxVars, input_source, video>>

\* stop(): the two flags
StopBegin ==
    /\ input_source = "phone"
    /\ phone.stopPc = "idle"
    /\ phone.stops < MaxStops
    /\ phone' = [phone EXCEPT
                     !.running = FALSE,
                     !.connected = FALSE,
                     !.stopPc = "put",
                     !.stops = @ + 1,
                     !.stopped = @ \/ phone.pc \in {"loop", "get", "yielded"}]
    /\ UNCHANGED <<schedVars, envVars, fault, auxVars, input_source, video>>

\* frame_queue.put(None, block=False) in stop(), queue.Full passed over
StopOutcome_FullRaises(q) ==
    IF Len(q) < QueueMax
    THEN [queue |-> Append(q, None), raised |-> FALSE]
    ELSE [queue |-> q, raised |-> TRUE]

StopOutcome(q) ==
    IF Len(q) < QueueMax
    THEN [queue |-> Append(q, None), raised |-> FALSE]
    ELSE [queue |-> q, raised |-> FALSE]

\* stop(): the sentinel
StopPut ==
    /\ phone.stopPc = "put"
    /\ LET o == StopOutcome(phone.frame_queue)
       IN  phone' = [phone EXCEPT
                         !.frame_queue = o.queue,
                         !.raised = @ \/ o.raised,
                         !.stopPc = "idle"]
    /\ UNCHANGED <<schedVars, envVars, fault, auxVars, input_source, video>>

\* first next() on read(), which the scheduler calls once: running = True,
\* _frame_id = 0
PhoneRead ==
    /\ input_source = "phone"
    /\ phone.pc = "idle"
    /\ phone' = [phone EXCEPT
                     !.pc = "loop",
                     !.running = TRUE,
                     !.frame_id = 0,
                     !.yields = <<>>,
                     !.stopped = FALSE,
                     !.waitsAfterStop = 0]
    /\ UNCHANGED <<schedVars, envVars, fault, auxVars, input_source, video>>

\* while self.running; leaving the loop runs finally: running = False
PhoneWhile ==
    /\ phone.pc = "loop"
    /\ phone' = [phone EXCEPT
                     !.pc = IF phone.running THEN "get" ELSE "ended",
                     !.running = IF phone.running THEN TRUE ELSE FALSE]
    /\ UNCHANGED <<schedVars, envVars, fault, auxVars, input_source, video>>

\* frame_queue.get returns an item: the sentinel ends the loop, an object
\* that is no ndarray is skipped, a frame is yielded with _frame_id
PhoneGet ==
    /\ phone.pc = "get"
    /\ phone.frame_queue # <<>>
    /\ LET frame == Head(phone.frame_queue)
       IN  phone' = [phone EXCEPT
                         !.frame_queue = Tail(@),
                         !.pc = IF frame = None THEN "ended"
                                ELSE IF frame = "object" THEN "loop"
                                ELSE "yielded",
                         !.running = IF frame = None THEN FALSE ELSE @,
                         !.yields = IF IsFrame(frame)
                                    THEN Append(@, phone.frame_id) ELSE @,
                         !.got = IF IsFrame(frame) THEN Append(@, frame)
                                 ELSE @]
    /\ UNCHANGED <<schedVars, envVars, fault, auxVars, input_source, video>>

\* where read() goes after queue.Empty
AfterTimeout_EndsWhenConnected(connected) ==
    IF connected THEN "ended" ELSE "loop"

AfterTimeout(connected) == "loop"

\* frame_queue.get times out: queue.Empty, connected = False, continue
PhoneEmpty ==
    /\ phone.pc = "get"
    /\ phone.frame_queue = <<>>
    /\ LET to == AfterTimeout(phone.connected)
       IN  phone' = [phone EXCEPT
                         !.pc = to,
                         !.running = IF to = "ended" THEN FALSE ELSE @,
                         !.connected = FALSE,
                         !.waitsAfterStop =
                             IF phone.stopped /\ @ < 2 THEN @ + 1 ELSE @]
    /\ UNCHANGED <<schedVars, envVars, fault, auxVars, input_source, video>>

\* self._frame_id after the consumer resumes the generator
PhoneAfterYield_Same(id) == id

PhoneAfterYield(id) == id + 1

\* the consumer asks for the next frame: _frame_id += 1
PhoneResume ==
    /\ phone.pc = "yielded"
    /\ phone' = [phone EXCEPT
                     !.pc = "loop",
                     !.frame_id = PhoneAfterYield(@)]
    /\ UNCHANGED <<schedVars, envVars, fault, auxVars, input_source, video>>

\* the steps of the thread iterating PhoneCameraSource.read()
PhoneReader ==
    \/ PhoneWhile
    \/ PhoneGet
    \/ PhoneEmpty
    \/ PhoneResume

\* RawVideoSource: first next() on read(), which the scheduler calls once.
\* cv2.VideoCapture(video_path) on a file of n frames; not isOpened()
\* returns at once
VideoRead(n, opened) ==
    /\ input_source = "video"
    /\ video.pc = "idle"
    /\ video' = [video EXCEPT
                     !.pc = IF opened THEN "loop" ELSE "ended",
                     !.endedBy = IF opened THEN "none" ELSE "open",
                     !.len = n,
                     !.pos = 0,
                     !.frame_id = 0,
                     !.yields = <<>>,
                     !.nones = 0]
    /\ UNCHANGED <<schedVars, envVars, fault, auxVars, input_source, phone>>

\* where read() goes when cap.read() returns ret = False at the end of
\* the file
AtEndOfFile == "ended"

\* one pass of "while True": the _stop test, cap.read(), "if not ret:
\* break", the None test, the yield
VideoStep(frameIsNone) ==
    /\ video.pc = "loop"
    /\ frameIsNone => /\ ~video.stop
                      /\ video.pos < video.len
                      /\ video.nones < MaxNoneFrames
    /\ video' =
         IF video.stop
         THEN [video EXCEPT !.pc = "ended", !.endedBy = "stop"]
         ELSE IF video.pos = video.len
         THEN [video EXCEPT !.pc = AtEndOfFile, !.endedBy = "eof"]
         ELSE IF frameIsNone
         THEN [video EXCEPT !.pos = @ + 1, !.nones = @ + 1]
         ELSE [video EXCEPT !.pos = @ + 1,
                            !.pc = "yielded",
                            !.yields = Append(@, video.frame_id)]
    /\ UNCHANGED <<schedVars, envVars, fault, auxVars, input_source, phone>>

\* the consumer asks for the next frame: frame_id += 1
VideoResume ==
    /\ video.pc = "yielded"
    /\ video' = [video EXCEPT !.pc = "loop", !.frame_id = @ + 1]
    /\ UNCHANGED <<schedVars, envVars, fault, auxVars, input_source, phone>>

\* RawVideoSource.stop(): _stop = True, cap.release()
VideoStop ==
    /\ input_source = "video"
    /\ video.stops < MaxStops
    /\ video' = [video EXCEPT !.stop = TRUE, !.stops = @ + 1]
    /\ UNCHANGED <<schedVars, envVars, fault, auxVars, input_source, phone>>

NextSources ==
    \/ \E src \in {"phone", "video"} : Startup(src)
    \/ \E frame \in PhoneFrames : InjectFrame(frame)
    \/ StopBegin
    \/ StopPut
    \/ PhoneRead
    \/ PhoneWhile
    \/ PhoneGet
    \/ PhoneEmpty
    \/ PhoneResume
    \/ \E n \in 1..MaxFileFrames, opened \in BOOLEAN : VideoRead(n, opened)
    \/ \E frameIsNone \in BOOLEAN : VideoStep(frameIsNone)
    \/ VideoResume
    \/ VideoStop

\* the sources do not depend on the rate of the scheduler
InitSources == Init /\ target_fps = 1

SpecSources == InitSources /\ [][NextSources]_vars

\* the phone deployment as phone_upload drives it: every injected object is
\* a decoded frame
NextPhone ==
    \/ Startup("phone")
    \/ InjectFrame("frame")
    \/ StopBegin
    \/ StopPut
    \/ PhoneRead
    \/ PhoneWhile
    \/ PhoneGet
    \/ PhoneEmpty
    \/ PhoneResume

\* the thread iterating read() keeps running, its consumer keeps asking for
\* the next frame, and a stop() that was entered runs to its end
SpecPhoneFair ==
    /\ InitSources
    /\ [][NextPhone]_vars
    /\ WF_vars(PhoneReader)
    /\ WF_vars(StopPut)

\* ------------------------------------- result endpoint (api/ws_server.py)
\* websocket_endpoint runs as one coroutine per client on the event loop;
\* another handler can run at each await and nowhere else.
\* "if active_connection is not None:", up to the first await of the branch
\* taken
WsConnect(h) ==
    /\ ws.pc[h] = "new"
    /\ ws' = [ws EXCEPT !.pc[h] = IF ws.active_connection # 0
                                  THEN "reject_accept" ELSE "accept"]
    /\ UNCHANGED <<schedVars, envVars, fault, srcVars, ml, svc, vsm>>

\* await websocket.accept() returns; active_connection = websocket; the
\* handler then awaits send_json of the "connected" message
WsAccepted(h) ==
    /\ ws.pc[h] = "accept"
    /\ ws' = [ws EXCEPT !.pc[h] = "hello", !.active_connection = h]
    /\ UNCHANGED <<schedVars, envVars, fault, srcVars, ml, svc, vsm>>

\* the "connected" message is sent; the handler awaits websocket.receive()
WsHello(h) ==
    /\ ws.pc[h] = "hello"
    /\ ws' = [ws EXCEPT !.pc[h] = "receive", !.told[h] = "connected"]
    /\ UNCHANGED <<schedVars, envVars, fault, srcVars, ml, svc, vsm>>

\* send_json of the "connected" message raises (the client has gone): the
\* statement is outside the try block, so the handler ends without running
\* the finally clause
WsHelloRaises(h) ==
    /\ ws.pc[h] = "hello"
    /\ ws' = [ws EXCEPT !.pc[h] = "closed"]
    /\ UNCHANGED <<schedVars, envVars, fault, srcVars, ml, svc, vsm>>

\* receive() returns websocket.disconnect or raises; finally:
\* active_connection = None
WsDisconnect(h) ==
    /\ ws.pc[h] = "receive"
    /\ ws' = [ws EXCEPT !.pc[h] = "closed", !.active_connection = 0]
    /\ UNCHANGED <<schedVars, envVars, fault, srcVars, ml, svc, vsm>>

\* rejecting branch: await websocket.accept() returns
WsRejectAccepted(h) ==
    /\ ws.pc[h] = "reject_accept"
    /\ ws' = [ws EXCEPT !.pc[h] = "reject_send"]
    /\ UNCHANGED <<schedVars, envVars, fault, srcVars, ml, svc, vsm>>

\* rejecting branch: the "Connection limit reached" message is sent
WsRejectSent(h) ==
    /\ ws.pc[h] = "reject_send"
    /\ ws' = [ws EXCEPT !.pc[h] = "reject_close",
                        !.told[h] = "Connection limit reached"]
    /\ UNCHANGED <<schedVars, envVars, fault, srcVars, ml, svc, vsm>>

\* rejecting branch: await websocket.close() returns; return
WsRejectClosed(h) ==
    /\ ws.pc[h] = "reject_close"
    /\ ws' = [ws EXCEPT !.pc[h] = "closed"]
    /\ UNCHANGED <<schedVars, envVars, fault, srcVars, ml, svc, vsm>>

NextWs ==
    \E h \in 1..MaxClients :
        \/ WsConnect(h)
        \/ WsAccepted(h)
        \/ WsHello(h)
        \/ WsHelloRaises(h)
        \/ WsDisconnect(h)
        \/ WsRejectAccepted(h)
        \/ WsRejectSent(h)
        \/ WsRejectClosed(h)

SpecWs == Init /\ [][NextWs]_vars

\* ------------------------------------------- inference stage (ml-engine)
\* Confidences are counted in units of 0.00001.
CONFIDENCE_THRESHOLD == 40000
HIGH_CONFIDENCE_THRESHOLD == 75000
THRESHOLD_POTENTIAL == 40000
THRESHOLD_CONFIRMED == 75000

STATE_CONFIRMED_THREAT == "CONFIRMED_THREAT"
STATE_POTENTIAL_ANOMALY == "POTENTIAL_ANOMALY"
STATE_SAFE_MODE == "SAFE_MODE"

\* box.conf[0] values the detector reports, around both thresholds
BoxConfs == {30000, 39996, 40000, 40004, 60000, 74996, 75000, 75004, 90000}

\* result.boxes of one frame
BoxLists == UNION {[1..n -> BoxConfs] : n \in 0..MaxBoxes}

\* lengths of the axes of an ndarray
Dims == {0, 3, 4}

\* what a caller passes as the frame: None, an object that is not an
\* ndarray, or an ndarray of some shape
Images ==
    {[kind |-> None, shape |-> <<>>], [kind |-> "object", shape |-> <<>>]}
        \cup {[kind |-> "ndarray", shape |-> sh] :
                 sh \in UNION {[1..n -> Dims] : n \in 0..MaxDims}}

\* ndarray.size: the product of the axis lengths
RECURSIVE Size(_)
Size(shape) ==
    IF shape = <<>> THEN 1 ELSE Head(shape) * Size(Tail(shape))

\* round(x, ndigits) with unit = 10 ^ (5 - ndigits); BoxConfs holds no
\* value half-way between two results
Round(x, unit) == ((x + unit \div 2) \div unit) * unit

\* max() of a non-empty sequence
MaxOf(seq) == CHOOSE m \in {seq[i] : i \in 1..Len(seq)} :
                  \A i \in 1..Len(seq) : seq[i] <= m

\* the value both implementations return from a run
MlResult(raised, state, max_confidence, detections, error, models) ==
    [raised |-> raised, state |-> state, max_confidence |-> max_confidence,
     detections |-> detections, error |-> error, models |-> models]

\* variant: the gate does not look at the channel axis
JalDrishtiPipeline_validate_frame_NoChannelTest(image) ==
    IF image.kind = None THEN "Image is None"
    ELSE IF image.kind # "ndarray" THEN "Invalid type"
    ELSE IF Size(image.shape) = 0 THEN "Empty image (size=0)"
    ELSE IF Len(image.shape) < 3 THEN "Invalid dimensions"
    ELSE None

\* JalDrishtiPipeline._validate_frame: the error reason, None when valid
JalDrishtiPipeline_validate_frame(image) ==
    IF image.kind = None THEN "Image is None"
    ELSE IF image.kind # "ndarray" THEN "Invalid type"
    ELSE IF Size(image.shape) = 0 THEN "Empty image (size=0)"
    ELSE IF Len(image.shape) < 3 THEN "Invalid dimensions"
    ELSE IF image.shape[3] # 3 THEN "Invalid channels"
    ELSE None

\* preprocess_for_gan on an array that passed the gate: cv2.cvtColor with
\* COLOR_BGR2RGB raises cv2.error unless the array is H x W x 3 or
\* H x W x 4 (an array with more than 3 axes is a single-channel matrix)
PreprocessRaises(image) ==
    Len(image.shape) # 3 \/ image.shape[3] \notin {3, 4}

\* JalDrishtiPipeline.classify_confidence
classify_confidence(detections) ==
    IF detections = <<>>
    THEN [state |-> STATE_SAFE_MODE, max_confidence |-> 0]
    ELSE LET max_confidence == MaxOf(detections)
         IN  IF max_confidence >= THRESHOLD_CONFIRMED
             THEN [state |-> STATE_CONFIRMED_THREAT,
                   max_confidence |-> max_confidence]
             ELSE IF max_confidence >= THRESHOLD_POTENTIAL
             THEN [state |-> STATE_POTENTIAL_ANOMALY,
                   max_confidence |-> max_confidence]
             ELSE [state |-> STATE_SAFE_MODE,
                   max_confidence |-> max_confidence]

\* JalDrishtiPipeline.run(image_array=image) when the detector reports boxes
\* for the frame; crashes: a model raises inside the try block
JalDrishtiPipeline_run(image, boxes, crashes) ==
    LET error_reason == JalDrishtiPipeline_validate_frame(image)
    IN  IF error_reason # None
        THEN MlResult(FALSE, STATE_SAFE_MODE, 0, <<>>, error_reason, 0)
        ELSE IF PreprocessRaises(image)
        THEN MlResult(FALSE, STATE_SAFE_MODE, 0, <<>>, "cv2.error", 0)
        ELSE IF crashes
        THEN MlResult(FALSE, STATE_SAFE_MODE, 0, <<>>, "model error", 1)
        ELSE LET detections == [i \in 1..Len(boxes) |-> Round(boxes[i], 10)]
                 c == classify_confidence(detections)
             IN  MlResult(FALSE, c.state, Round(c.max_confidence, 10),
                          detections, None, 2)

\* JalDrishtiEngine.validate_frame: the message, None when valid
validate_frame(frame) ==
    IF frame.kind = None THEN "Frame is None"
    ELSE IF Size(frame.shape) = 0 THEN "Empty frame"
    ELSE IF Len(frame.shape) # 3 THEN "Invalid dimensions"
    ELSE IF frame.shape[3] # 3 THEN "Invalid channel count (Not RGB)"
    ELSE None

\* JalDrishtiEngine._build_safe_response (it has no "error" entry)
build_safe_response(models) ==
    MlResult(FALSE, STATE_SAFE_MODE, 0, <<>>, None, models)

\* variant: one threshold only
EngineState_OneThreshold(max_conf) ==
    IF max_conf > HIGH_CONFIDENCE_THRESHOLD THEN STATE_CONFIRMED_THREAT
    ELSE STATE_SAFE_MODE

\* JalDrishtiEngine.infer, "Determine System State"
EngineState(max_conf) ==
    IF max_conf > HIGH_CONFIDENCE_THRESHOLD THEN STATE_CONFIRMED_THREAT
    ELSE IF max_conf > CONFIDENCE_THRESHOLD THEN STATE_POTENTIAL_ANOMALY
    ELSE STATE_SAFE_MODE

\* the loop over the boxes: max_conf starts at 0.0
RECURSIVE MaxConf(_, _)
MaxConf(max_conf, boxes) ==
    IF boxes = <<>> THEN max_conf
    ELSE MaxConf(IF Head(boxes) > max_conf THEN Head(boxes) ELSE max_conf,
                 Tail(boxes))

\* JalDrishtiEngine.infer(frame); crashes: a statement of the try block
\* raises, which "except Exception" turns into the safe response.  An
\* object without a size attribute fails in validate_frame, outside the try.
infer(frame, boxes, crashes) ==
    IF frame.kind = "object"
    THEN MlResult(TRUE, None, 0, <<>>, "AttributeError", 0)
    ELSE IF validate_frame(frame) # None THEN build_safe_response(0)
    ELSE IF crashes THEN build_safe_response(1)
    ELSE LET max_conf == MaxConf(0, boxes)
         IN  MlResult(FALSE, EngineState(max_conf), Round(max_conf, 100),
                      [i \in 1..Len(boxes) |-> Round(boxes[i], 100)],
                      None, 2)

\* cv2.imencode('.jpg', frame) accepts a non-empty H x W or H x W x C
\* array with 1, 3 or 4 channels and raises cv2.error otherwise
Encodable(frame) ==
    /\ frame.kind = "ndarray"
    /\ Size(frame.shape) # 0
    /\ \/ Len(frame.shape) = 2
       \/ Len(frame.shape) = 3 /\ frame.shape[3] \in {1, 3, 4}

\* MLService.run_inference(frame): whether it raises, and with what.  On
\* the safe response the engine hands the input frame back as the enhanced
\* frame, which is encoded when debug_mode is set.
run_inference(engine_is_none, debug_mode, frame, boxes, crashes) ==
    IF engine_is_none
    THEN [raised |-> TRUE, e |-> "Engine not initialized"]
    ELSE LET result_json == infer(frame, boxes, crashes)
         IN  IF result_json.raised
             THEN [raised |-> TRUE, e |-> result_json.error]
             ELSE IF debug_mode /\ ~Encodable(frame)
             THEN [raised |-> TRUE, e |-> "cv2.error"]
             ELSE [raised |-> FALSE, e |-> None]

\* the detector is reached for this frame
Detectable(impl, image) ==
    IF impl = "pipeline"
    THEN /\ JalDrishtiPipeline_validate_frame(image) = None
         /\ ~PreprocessRaises(image)
    ELSE image.kind = "ndarray" /\ validate_frame(image) = None

\* a caller hands a frame to one of the two implementations
MlFrame(impl, image) ==
    /\ ml.pc = "idle"
    /\ ml' = [pc |-> "called", impl |-> impl, image |-> image,
              boxes |-> <<>>, result |-> Ml0.result]
    /\ UNCHANGED <<schedVars, envVars, fault, srcVars, ws, svc, vsm>>

\* yolo_inference(yolo_input, conf_threshold: float = 0.25)
conf_threshold == 25000

\* the detector reports only boxes above its conf argument
DetectorConf(impl) ==
    IF impl = "pipeline" THEN conf_threshold ELSE CONFIDENCE_THRESHOLD

\* the detector finds one more box in the frame
MlBox(conf) ==
    /\ ml.pc = "called"
    /\ Detectable(ml.impl, ml.image)
    /\ conf > DetectorConf(ml.impl)
    /\ Len(ml.boxes) < MaxBoxes
    /\ ml' = [ml EXCEPT !.boxes = Append(@, conf)]
    /\ UNCHANGED <<schedVars, envVars, fault, srcVars, ws, svc, vsm>>

\* JalDrishtiPipeline.run returns
PipelineRun(crashes) ==
    /\ ml.pc = "called"
    /\ ml.impl = "pipeline"
    /\ crashes => Detectable(ml.impl, ml.image) /\ ml.boxes = <<>>
    /\ ml' = [ml EXCEPT !.pc = "done",
                        !.result = JalDrishtiPipeline_run(ml.image, ml.boxes,
                                                          crashes)]
    /\ UNCHANGED <<schedVars, envVars, fault, srcVars, ws, svc, vsm>>

\* JalDrishtiEngine.infer returns or raises
EngineInfer(crashes) ==
    /\ ml.pc = "called"
    /\ ml.impl = "core"
    /\ crashes => Detectable(ml.impl, ml.image) /\ ml.boxes = <<>>
    /\ ml' = [ml EXCEPT !.pc = "done",
                        !.result = infer(ml.image, ml.boxes, crashes)]
    /\ UNCHANGED <<schedVars, envVars, fault, srcVars, ws, svc, vsm>>

\* the caller has taken the result; neither implementation keeps anything
\* of a run for the next one
MlReturn ==
    /\ ml.pc = "done"
    /\ ml' = Ml0
    /\ UNCHANGED <<schedVars, envVars, fault, srcVars, ws, svc, vsm>>

NextMl ==
    \/ \E impl \in {"pipeline", "core"}, image \in Images :
          MlFrame(impl, image)
    \/ \E conf \in BoxConfs : MlBox(conf)
    \/ \E crashes \in BOOLEAN : PipelineRun(crashes)
    \/ \E crashes \in BOOLEAN : EngineInfer(crashes)
    \/ MlReturn

SpecMl == Init /\ [][NextMl]_vars

\* a frame the scheduler submits: an H x W x 3 ndarray
SubmittedFrame == [kind |-> "ndarray", shape |-> <<4, 4, 3>>]

\* run_inference(frame) ends after d ticks in a call during which a
\* statement inside engine.infer's try block raised
InferEngineError(d, debug_mode) ==
    /\ pc = "infer"
    /\ fault.engineErrors < MaxEngineErrors
    /\ LET r == run_inference(FALSE, debug_mode, SubmittedFrame, <<>>, TRUE)
           s == IF r.raised
                THEN FailureState(in_safe_mode, safe_mode_reason,
                                  last_recovery_check, r.e, now + d)
                ELSE SuccessState(in_safe_mode, safe_mode_reason,
                                  last_recovery_check)
       IN  /\ in_safe_mode' = s.active
           /\ safe_mode_reason' = s.reason
           /\ last_recovery_check' = s.lrc
           /\ emitted' = IF r.raised
                         THEN FailureEnvelopes(in_safe_mode, r.e)
                         ELSE SuccessEnvelopes(in_safe_mode, frame_id,
                                               current_fps, d)
           /\ pc' = IF r.raised THEN AfterInferenceError ELSE "pace"
           /\ obs' = [obs EXCEPT
                         !.anySuccess = @ \/ ~r.raised,
                         !.prevOutcome = obs.outcome,
                         !.outcome = IF r.raised THEN "fail" ELSE "ok",
                         !.dataSent = ~r.raised,
                         !.unavailable = Unavailable(@, emitted'),
                         !.slow = SlowInference(d),
                         !.nominal = IF r.raised THEN FALSE
                                     ELSE @ /\ d < frame_interval,
                         !.lastSafeEvent =
                             IF r.raised /\ ~in_safe_mode THEN now + d
                             ELSE @]
    /\ now' = now + d
    /\ inflight' = CallFinished(inflight)
    /\ fault' = [fault EXCEPT !.engineErrors = @ + 1]
    /\ UNCHANGED <<attrs, target_fps, start_time, frame_id, drift,
                   frames_processed_in_window, last_fps_log_time, current_fps,
                   srcNext, rawLog, srcVars, auxVars>>

NextEngineError ==
    \/ Next
    \/ \E d \in 0..MaxLatency, debug_mode \in BOOLEAN :
          InferEngineError(d, debug_mode)

SpecEngineError == Init /\ [][NextEngineError]_vars

\* --------------------------- engine construction (services/ml_service.py)
\* startup_event starts the warmup thread, waits at most 7 s for the engine
\* and then starts the scheduler thread, whether or not the engine is there.
EngineThreads == {"warmup", "scheduler"}

\* where a thread goes when _ensure_engine returns: _warmup_engine ends,
\* run_inference goes on with "if self.engine is None: raise"
AfterEnsure(t) == IF t = "warmup" THEN "done" ELSE "check"

\* warmup_thread.start(): _warmup_engine calls ml_service._ensure_engine()
WarmupStart ==
    /\ svc.pc["warmup"] = "idle"
    /\ svc' = [svc EXCEPT !.pc["warmup"] = "ensure"]
    /\ UNCHANGED <<schedVars, envVars, fault, srcVars, ws, ml, vsm>>

\* run_inference on the scheduler thread: "if self.engine is None:
\* self._ensure_engine()"
RunInferenceBegin ==
    /\ svc.pc["scheduler"] = "idle"
    /\ svc.calls < MaxCalls
    /\ svc' = [svc EXCEPT !.pc["scheduler"] = IF svc.engine = 0 THEN "ensure"
                                              ELSE "check",
                          !.calls = @ + 1]
    /\ UNCHANGED <<schedVars, envVars, fault, srcVars, ws, ml, vsm>>

\* _ensure_engine: "if self.engine is not None: return"
EnsureCheck(t) ==
    /\ svc.pc[t] = "ensure"
    /\ svc' = [svc EXCEPT !.pc[t] = IF svc.engine # 0 THEN AfterEnsure(t)
                                    ELSE "init"]
    /\ UNCHANGED <<schedVars, envVars, fault, srcVars, ws, ml, vsm>>

\* _ensure_engine: self.engine = JalDrishtiEngine() after the constructor
\* has loaded the models, or self.engine = None when it raised
EnsureInit(t, ok) ==
    /\ svc.pc[t] = "init"
    /\ ok => svc.built < MaxEngines
    /\ svc' = [svc EXCEPT !.pc[t] = AfterEnsure(t),
                          !.built = IF ok THEN @ + 1 ELSE @,
                          !.engine = IF ok THEN svc.built + 1 ELSE 0]
    /\ UNCHANGED <<schedVars, envVars, fault, srcVars, ws, ml, vsm>>

\* run_inference: "if self.engine is None: raise RuntimeError", else
\* self.engine.infer(frame) and return
RunInferenceEnd ==
    /\ svc.pc["scheduler"] = "check"
    /\ svc' = [svc EXCEPT !.pc["scheduler"] = "idle"]
    /\ UNCHANGED <<schedVars, envVars, fault, srcVars, ws, ml, vsm>>

NextSvc ==
    \/ WarmupStart
    \/ RunInferenceBegin
    \/ \E t \in EngineThreads : EnsureCheck(t)
    \/ \E t \in EngineThreads, ok \in BOOLEAN : EnsureInit(t, ok)
    \/ RunInferenceEnd

SpecSvc == Init /\ [][NextSvc]_vars

\* ------------------- raw frame sink (services/video_stream_manager.py)
\* The coroutines of the manager run on the event loop; another one can run
\* at each await and nowhere else.  Subscriber c is the c-th client to
\* connect, broadcast b the b-th frame raw_frame_callback schedules.
\* VideoStreamManager.disconnect(websocket)
disconnect(active_connections, websocket) ==
    IF \E i \in 1..Len(active_connections) :
           active_connections[i] = websocket
    THEN SelectSeq(active_connections, LAMBDA c : c # websocket)
    ELSE active_connections

\* variant: a send failure ends the broadcast
AfterSendFailure_Abort(i, n) == n + 1

\* "except Exception" is inside the for loop: the loop goes on with the next
\* connection of the copy
AfterSendFailure(i, n) == i + 1

\* /ws/raw_feed: VideoStreamManager.connect, accept and append
VsmConnect(c) ==
    /\ vsm.client[c] = "new"
    /\ c > 1 => vsm.client[c - 1] # "new"
    /\ vsm' = [vsm EXCEPT !.client[c] = "open",
                          !.active_connections = Append(@, c)]
    /\ UNCHANGED <<schedVars, envVars, fault, srcVars, ws, ml, svc>>

\* the client goes away; its handler calls disconnect(websocket)
VsmDisconnect(c) ==
    /\ vsm.client[c] = "open"
    /\ vsm' = [vsm EXCEPT !.client[c] = "gone",
                          !.active_connections = disconnect(@, c)]
    /\ UNCHANGED <<schedVars, envVars, fault, srcVars, ws, ml, svc>>

\* shutdown_event: video_stream_manager.is_shutting_down = True
VsmShutdown ==
    /\ ~vsm.is_shutting_down
    /\ vsm' = [vsm EXCEPT !.is_shutting_down = TRUE]
    /\ UNCHANGED <<schedVars, envVars, fault, srcVars, ws, ml, svc>>

\* raw_frame_callback on the scheduler thread: returns when the manager is
\* shutting down, else schedules broadcast_raw_frame on the loop
RawFrameCallback(b) ==
    /\ vsm.bc[b].pc = "none"
    /\ b > 1 => vsm.bc[b - 1].pc # "none"
    /\ vsm' = [vsm EXCEPT !.bc[b].pc = IF vsm.is_shutting_down THEN "done"
                                       ELSE "scheduled"]
    /\ UNCHANGED <<schedVars, envVars, fault, srcVars, ws, ml, svc>>

\* broadcast_raw_frame starts: the test of line 36, the encoding, and the
\* copy of the list the loop iterates over, up to the first await
BroadcastBegin(b) ==
    /\ vsm.bc[b].pc = "scheduled"
    /\ b > 1 => vsm.bc[b - 1].pc # "scheduled"
    /\ vsm' = [vsm EXCEPT
                  !.bc[b] = IF vsm.active_connections = <<>>
                               \/ vsm.is_shutting_down
                            THEN [@ EXCEPT !.pc = "done"]
                            ELSE [@ EXCEPT !.pc = "send",
                                           !.copy = vsm.active_connections,
                                           !.i = 1]]
    /\ UNCHANGED <<schedVars, envVars, fault, srcVars, ws, ml, svc>>

\* await connection.send_json(payload) ends for the i-th connection of the
\* copy: it raises when the client has gone and may raise otherwise
BroadcastSend(b, raises) ==
    /\ vsm.bc[b].pc = "send"
    /\ LET B == vsm.bc[b]
           n == Len(B.copy)
           connection == B.copy[B.i]
           next == IF raises THEN AfterSendFailure(B.i, n) ELSE B.i + 1
       IN  /\ vsm.client[connection] = "gone" => raises
           /\ vsm' = [vsm EXCEPT
                         !.active_connections =
                             IF raises THEN disconnect(@, connection) ELSE @,
                         !.bc[b] = [@ EXCEPT
                                       !.pc = IF next > n THEN "done"
                                              ELSE "send",
                                       !.i = next,
                                       !.sent = IF raises THEN @
                                                ELSE @ \cup {connection},
                                       !.failed = IF raises
                                                  THEN @ \cup {connection}
                                                  ELSE @]]
    /\ UNCHANGED <<schedVars, envVars, fault, srcVars, ws, ml, svc>>

NextVsm ==
    \/ \E c \in 1..MaxSubscribers : VsmConnect(c)
    \/ \E c \in 1..MaxSubscribers : VsmDisconnect(c)
    \/ VsmShutdown
    \/ \E b \in 1..MaxBroadcasts : RawFrameCallback(b)
    \/ \E b \in 1..MaxBroadcasts : BroadcastBegin(b)
    \/ \E b \in 1..MaxBroadcasts, raises \in BOOLEAN : BroadcastSend(b, raises)

SpecVsm == Init /\ [][NextVsm]_vars

\* ------------------------------------------------------------ properties
\* number of System envelopes with the given status in a sequence
CountStatus(seq, st) ==
    Cardinality({i \in 1..Len(seq) :
                    seq[i].type = "system" /\ seq[i].status = st})

\* C1: every frame the source has yielded has been handed to the raw
\* callback exactly once and in sequence_id order, whatever happened to
\* inference on it or on earlier frames.
C1_RawExactlyOnceInOrder ==
    /\ Len(rawLog) = srcNext
    /\ \A i \in 1..Len(rawLog) : rawLog[i] = i - 1

\* a run with a success, then Safe-Mode, then a frame dropped for drift
C1_Witness ==
    /\ Len(rawLog) >= 4
    /\ in_safe_mode
    /\ obs.anySuccess
    /\ obs.iter = "dropped"

\* C2: raw emission never waits on inference: when the source yields every
\* frame without delay and no sleep overruns, every frame is raw-emitted
\* within one frame_interval of its pacing target, however long the
\* inference calls on earlier frames took.
C2_RawNeverWaitsOnInference ==
    (obs.exact /\ frame_id >= 0) => drift <= frame_interval

\* C3: the scheduler owns a background inference worker and its mailbox:
\* the instance has the attributes ml_queue, ml_worker_thread and _ml_worker.
C3_SchedulerOwnsWorkerMailbox ==
    {"ml_queue", "ml_worker_thread", "_ml_worker"} \subseteq attrs

\* C4: at most one run_inference call issued by the scheduler is in flight
\* at any time; a call starts only when no call is in flight.
C4_OneInferenceInFlight ==
    /\ inflight \in {0, 1}
    /\ inflight = 1 <=> pc = "infer"

\* a second call is in flight after an earlier call has failed
C4_Witness ==
    /\ inflight = 1
    /\ pc = "infer"
    /\ obs.outcome = "fail"

\* C5: if every inference call so far has failed and at least one call was
\* made, the scheduler is in Safe-Mode.
C5_AlwaysFailingStaysSafe ==
    (~obs.anySuccess /\ obs.outcome = "fail") => in_safe_mode

\* two failed calls, the second one a recovery attempt, and the loop goes on
C5_Witness ==
    /\ ~obs.anySuccess
    /\ obs.outcome = "fail"
    /\ obs.prevOutcome = "fail"
    /\ obs.callInSafe
    /\ pc = "read"
    /\ in_safe_mode

\* C6: right after a fast successful call that follows a failed call,
\* exactly one "recovered" envelope has been emitted and Safe-Mode is
\* inactive; no other step emits a "recovered" envelope.
C6_RecoveredOnceOnFastSuccess ==
    /\ (/\ pc = "pace"
        /\ obs.iter = "called"
        /\ obs.outcome = "ok"
        /\ obs.prevOutcome = "fail"
        /\ ~obs.slow)
       => (~in_safe_mode /\ CountStatus(emitted, "recovered") = 1)
    /\ CountStatus(emitted, "recovered") > 0
       => (/\ pc = "pace"
           /\ obs.iter = "called"
           /\ obs.outcome = "ok"
           /\ obs.callInSafe
           /\ CountStatus(emitted, "recovered") = 1)

\* two failures, then the fast success
C6_Witness ==
    /\ pc = "pace"
    /\ obs.iter = "called"
    /\ obs.outcome = "ok"
    /\ obs.prevOutcome = "fail"
    /\ ~obs.slow
    /\ CountStatus(emitted, "recovered") = 1
    /\ ~in_safe_mode

\* C7: a step that takes Safe-Mode from inactive to active hands exactly
\* one System envelope with status safe_mode and the failure's reason to
\* the result callback, and a failed call that ends while Safe-Mode is
\* already active hands it nothing.
C7_SafeModeEnvelopeOnEntryOnly ==
    [][/\ (~in_safe_mode /\ in_safe_mode')
          => /\ safe_mode_reason' \in Reasons
             /\ emitted' = <<[type |-> "system", status |-> "safe_mode",
                              message |-> <<safe_mode_reason'>>]>>
       /\ (pc = "infer" /\ pc' = "pace" /\ obs'.outcome = "fail"
              /\ in_safe_mode)
          => emitted' = <<>>]_vars

\* a failed recovery attempt: a failure while Safe-Mode is already active
C7_Witness ==
    /\ pc = "pace"
    /\ obs.iter = "called"
    /\ obs.outcome = "fail"
    /\ obs.callInSafe
    /\ in_safe_mode
    /\ emitted = <<>>

\* C8: an inference call that starts while Safe-Mode is active starts at
\* least recovery_interval after the failure that entered Safe-Mode and at
\* least recovery_interval after the previous call started in Safe-Mode.
C8_RecoveryRateBounded ==
    [][(pc' = "infer" /\ pc = "read" /\ in_safe_mode)
       => /\ obs.lastSafeEvent >= 0
          /\ now' - obs.lastSafeEvent >= recovery_interval
          /\ obs'.lastSafeEvent = now']_vars

\* the second recovery attempt of a run is in flight
C8_Witness ==
    /\ pc = "infer"
    /\ obs.callInSafe
    /\ in_safe_mode
    /\ obs.safeCalls = 2

\* C9: drift is (now - start_time) - frame_id * frame_interval at the
\* moment the frame is read; a frame whose drift exceeds frame_interval is
\* not passed to the inference call and causes no envelope, a frame passed
\* to the inference call has drift at most frame_interval, and either way
\* the frame is the latest one handed to the raw callback.
C9_DriftGatesInference ==
    [][srcNext' = srcNext + 1
       => /\ drift' = (now' - start_time') - frame_id' * frame_interval
          /\ drift' > frame_interval
             => (pc' = "read" /\ inflight' = inflight /\ emitted' = <<>>)
          /\ pc' = "infer" => drift' <= frame_interval
          /\ rawLog' = Append(rawLog, frame_id')]_vars

\* a frame with drift above frame_interval has just been read and dropped
C9_Witness ==
    /\ frame_id >= 1
    /\ drift > frame_interval
    /\ pc = "read"
    /\ obs.iter = "dropped"
    /\ rawLog[Len(rawLog)] = frame_id

\* C10: under nominal load (every call so far succeeded faster than
\* frame_interval, the source yielded every frame without delay and no
\* sleep overran) drift has not exceeded frame_interval and the frame of
\* the current iteration was passed to an inference call.
C10_NominalLoadDropsNothing ==
    (obs.nominal /\ frame_id >= 0)
    => (drift <= frame_interval /\ obs.iter = "called" /\ ~in_safe_mode)

\* the whole session ran under nominal load with calls that took time
C10_Witness ==
    /\ obs.nominal
    /\ srcNext = MaxFrames
    /\ pc = "pace"
    /\ emitted = <<DataEnvelope(frame_id, current_fps, 1)>>

\* C18: a failed inference call does not end the run: the step in which
\* run_inference raises leaves the loop in its pacing block, the pacing
\* block leads to the next read, the loop ends only while it waits for the
\* source, and a frame read is handed to the raw callback.
C18_InferenceFailureKeepsLoop ==
    [][/\ (pc = "infer" /\ pc' # "infer" /\ obs'.outcome = "fail")
          => pc' = "pace"
       /\ pc = "pace" => pc' = "read"
       /\ pc' = "done" => pc = "read"
       /\ srcNext' = srcNext + 1
          => (pc = "read" /\ rawLog' = Append(rawLog, srcNext))]_vars

\* the latest call failed and a later frame has been read and raw-emitted
C18_Witness ==
    /\ obs.outcome = "fail"
    /\ obs.iter \in {"gated", "dropped"}
    /\ Len(rawLog) >= 2
    /\ rawLog[Len(rawLog)] = frame_id
    /\ pc # "done"

\* C19: once the source's read has raised, the loop has ended: it is not
\* waiting for another frame, no call is in flight, and the failing read
\* handed nothing to the raw callback or to the result callback.
C19_SourceErrorIsFatal ==
    [][fault'.srcError
       => /\ pc' = "done"
          /\ inflight' = 0
          /\ UNCHANGED <<srcNext, rawLog>>
          /\ emitted' = <<>>]_vars

\* the read raised after some frames had gone through
C19_Witness ==
    /\ fault.srcError
    /\ pc = "done"
    /\ Len(rawLog) >= 2
    /\ obs.outcome # "none"

\* frame_id carried by a Data envelope
DataFrameId(env) == env.message[2]

\* positions of the Data envelopes in a sequence of envelopes
DataAt(seq) == {i \in 1..Len(seq) : seq[i].type = "data"}

\* C20: the frame ids read from the source increase; a step hands at most
\* one Data envelope to the result callback, it carries the frame_id of
\* the current frame, no earlier Data envelope carried that frame_id, and
\* the frame was handed to the raw callback before.
C20_DataFrameIdsIncrease ==
    [][/\ srcNext' # srcNext => (frame_id' > frame_id /\ ~obs'.dataSent)
       /\ frame_id' # frame_id => srcNext' # srcNext
       /\ obs'.dataSent /\ ~obs.dataSent => DataAt(emitted') # {}
       /\ \A i \in DataAt(emitted') :
             /\ DataAt(emitted') = {i}
             /\ DataFrameId(emitted'[i]) = frame_id'
             /\ ~obs.dataSent
             /\ obs'.dataSent
             /\ \E j \in 1..Len(rawLog') :
                    rawLog'[j] = DataFrameId(emitted'[i])]_vars

\* a Data envelope after a gap: the recovery call succeeded
C20_Witness ==
    /\ pc = "pace"
    /\ DataAt(emitted) # {}
    /\ obs.callInSafe
    /\ obs.dataSent
    /\ frame_id >= 2
    /\ obs.prevOutcome = "fail"

\* C16: once the shutdown signal is set the loop stops after at most its
\* current iteration: at most one more frame is read from the source.
C16_ShutdownStopsLoop == fault.readsAfterShutdown <= 1

\* C17: a callback that raises is contained: the loop does not end, and the
\* Safe-Mode state after the step is the one the inference outcome alone
\* gives.
C17_SinkFailureContained ==
    [][fault'.sinkRaises > fault.sinkRaises
       => /\ pc' # "done"
          /\ IF pc = "read"
             THEN <<in_safe_mode', safe_mode_reason'>>
                      = <<in_safe_mode, safe_mode_reason>>
             ELSE IF obs'.outcome = "ok"
             THEN LET s == SuccessState(in_safe_mode, safe_mode_reason,
                                        last_recovery_check)
                  IN  <<in_safe_mode', safe_mode_reason'>>
                          = <<s.active, s.reason>>
             ELSE \E e \in Reasons :
                  LET s == FailureState(in_safe_mode, safe_mode_reason,
                                        last_recovery_check, e, now')
                  IN  <<in_safe_mode', safe_mode_reason'>>
                          = <<s.active, s.reason>>]_vars

\* C11: within one read() session of a source the yielded ids are 0, 1,
\* 2, ... with no gap and no repeat, whatever was skipped in between.
C11_SequenceIdsGapless ==
    /\ \A i \in 1..Len(phone.yields) : phone.yields[i] = i - 1
    /\ \A i \in 1..Len(video.yields) : video.yields[i] = i - 1

C11_Witness ==
    /\ phone.pc = "yielded"
    /\ Len(phone.yields) >= 3
    /\ phone.invalid >= 1
    /\ \A i \in 1..Len(phone.frame_queue) : phone.frame_queue[i] # "object"

\* C12: inject_frame with a frame returns True and enqueues it when fewer
\* than 10 items are buffered, returns False and leaves the buffer as it
\* is when 10 are buffered; the buffer never holds more than 10 items.
C12_InjectNeverOverfills ==
    /\ Len(phone.frame_queue) <= QueueMax
    /\ \A frame \in PhoneFrames \ {None} :
          LET o == InjectOutcome(phone.frame_queue, frame)
          IN  IF Len(phone.frame_queue) < QueueMax
              THEN /\ o.accepted
                   /\ o.queue = Append(phone.frame_queue, frame)
              ELSE /\ ~o.accepted
                   /\ o.queue = phone.frame_queue

C12_Witness ==
    /\ Len(phone.frame_queue) = QueueMax
    /\ phone.pc = "get"
    /\ phone.connected
    /\ phone.stops = 0

\* C13: stop() called once or twice raises nothing, and a read() session
\* that stop() was called in ends, after at most one more timeout, also
\* when the buffer was full and the sentinel was not enqueued.
C13_StopEndsRead ==
    /\ [](~phone.raised /\ phone.waitsAfterStop <= 1)
    /\ (phone.stopped ~> phone.pc = "ended")

C13_Witness ==
    /\ phone.stopped
    /\ phone.stops = 2
    /\ phone.stopPc = "idle"
    /\ phone.pc = "ended"
    /\ Len(phone.frame_queue) = QueueMax
    /\ \A i \in 1..Len(phone.frame_queue) : phone.frame_queue[i] # None

\* C14: a file source does not end at the end of the file.
C14_FileSourceLoops == video.endedBy # "eof"

\* C15: a timeout of the phone source's wait for a frame leaves the session
\* as it is and goes on waiting; the session ends only after stop(); the
\* frame taken next is yielded with the next id.
C15_AbsentInputKeepsSession ==
    [][/\ (phone.pc = "get" /\ phone.frame_queue = <<>> /\ phone'.pc # "get")
          => /\ phone'.pc = "loop"
             /\ phone'.running = phone.running
             /\ phone'.frame_id = phone.frame_id
             /\ phone'.yields = phone.yields
       /\ (phone.pc # "ended" /\ phone'.pc = "ended") => phone.stops > 0
       /\ (phone.pc = "get" /\ phone'.pc = "yielded")
          => /\ IsFrame(Head(phone.frame_queue))
             /\ phone'.yields = Append(phone.yields, Len(phone.yields))]_vars

C15_Witness ==
    /\ phone.pc = "get"
    /\ phone.running
    /\ ~phone.connected
    /\ phone.frame_queue = <<>>
    /\ Len(phone.yields) >= 2
    /\ phone.stops = 0

\* C21: no Data envelope is handed over while the latest System envelope
\* is "safe_mode": on recovery "recovered" comes before the Data envelope
\* of the recovering frame; Safe-Mode is active exactly while the latest
\* System envelope is "safe_mode".
C21_UnavailabilityBracketed ==
    [][/\ \A i \in DataAt(emitted') :
             ~Unavailable(obs.unavailable, SubSeq(emitted', 1, i - 1))
       /\ obs'.unavailable = in_safe_mode']_vars

C21_Witness ==
    /\ pc = "pace"
    /\ Len(emitted) = 2
    /\ emitted[1].status = "recovered"
    /\ emitted[2].type = "data"
    /\ ~obs.unavailable
    /\ obs.safeCalls >= 2

\* C26: in_safe_mode goes from true to false only in the step in which an
\* inference call returns normally.
C26_SafeModeResetOnlyBySuccess ==
    [][in_safe_mode /\ ~in_safe_mode'
       => /\ pc = "infer"
          /\ obs.iter = "called"
          /\ obs'.outcome = "ok"
          /\ inflight' = inflight - 1]_vars

C26_Witness ==
    /\ pc = "read"
    /\ ~in_safe_mode
    /\ obs.callInSafe
    /\ obs.outcome = "ok"
    /\ obs.prevOutcome = "fail"
    /\ obs.safeCalls >= 2

\* C27: a successful recovery call whose latency is at or above 200 ms
\* leaves Safe-Mode active and hands over no "recovered" envelope.
C27_RecoveryGatedOnLatency ==
    [][(pc = "infer" /\ in_safe_mode /\ obs'.outcome = "ok"
          /\ (now' - now) * 5 >= TicksPerSecond)
       => /\ in_safe_mode'
          /\ CountStatus(emitted', "recovered") = 0]_vars

\* C28: a failure while Safe-Mode is active stores its reason.
C28_ReasonFollowsLatestFailure ==
    [][\A d \in 0..MaxLatency, e \in Reasons :
          (in_safe_mode /\ InferRaise(d, e)) => safe_mode_reason' = e]_vars

\* C29: in Safe-Mode a frame that is not drift-skipped is submitted to
\* inference exactly when recovery_interval has passed since the last
\* recovery check, which it then restarts; otherwise it causes exactly one
\* "safe_mode" System envelope with the stored reason and no call.
C29_GateOneSubmissionPerInterval ==
    [][(in_safe_mode /\ srcNext' = srcNext + 1 /\ obs'.iter # "dropped")
       => IF now' - last_recovery_check >= 5 * TicksPerSecond
          THEN /\ pc' = "infer"
               /\ inflight' = inflight + 1
               /\ emitted' = <<>>
               /\ last_recovery_check' = now'
          ELSE /\ pc' = "pace"
               /\ inflight' = inflight
               /\ Len(emitted') = 1
               /\ emitted'[1].type = "system"
               /\ emitted'[1].status = "safe_mode"
               /\ emitted'[1].message
                      = <<"System in Safe Mode: ", safe_mode_reason>>
               /\ last_recovery_check' = last_recovery_check]_vars

C29_Witness ==
    /\ pc = "pace"
    /\ in_safe_mode
    /\ obs.iter = "gated"
    /\ Len(emitted) = 1
    /\ obs.safeCalls >= 1
    /\ obs.outcome = "fail"
    /\ obs.callInSafe

\* C30: frame k+1 is not read before start_time + (k+1) * frame_interval;
\* the pacing sleep ends at that time (or up to MaxOversleep later) when it
\* lies ahead and is skipped otherwise; time never goes back.
C30_PacingHoldsRateFromBelow ==
    [][/\ (srcNext' = srcNext + 1 /\ srcNext >= 1)
          => now >= start_time + srcNext * frame_interval
       /\ pc = "pace"
          => LET target == start_time + (frame_id + 1) * frame_interval
             IN  IF now < target
                 THEN now' >= target /\ now' <= target + MaxOversleep
                 ELSE now' = now]_vars

C30_Witness ==
    /\ pc = "read"
    /\ srcNext >= 3
    /\ now = start_time + srcNext * frame_interval
    /\ ~obs.nominal
    /\ obs.iter = "gated"

\* C22: after an inference call during which the engine failed (an
\* exception inside engine.infer), the scheduler is in Safe-Mode.
C22_EngineFailureEntersSafeMode ==
    [][fault'.engineErrors > fault.engineErrors => in_safe_mode']_vars

\* C23: at most one /ws/stream connection is registered as
\* active_connection and not yet closed, in every interleaving of the
\* connection handlers.
C23_SingleActiveClient ==
    Cardinality({h \in 1..MaxClients : ws.pc[h] \in {"hello", "receive"}})
        <= 1

\* C24: for None, an empty array, or an array that is not 3-dimensional
\* with 3 channels, run returns (it does not raise) state SAFE_MODE with an
\* error entry, max_confidence 0.0 and no detections, and no model was run.
C24_InvalidFrameNeverCrashes ==
    (/\ ml.pc = "done"
     /\ ml.impl = "pipeline"
     /\ \/ ml.image.kind = None
        \/ /\ ml.image.kind = "ndarray"
           /\ \/ \E i \in 1..Len(ml.image.shape) : ml.image.shape[i] = 0
              \/ Len(ml.image.shape) # 3
              \/ ml.image.shape[3] # 3)
    => /\ ~ml.result.raised
       /\ ml.result.state = "SAFE_MODE"
       /\ ml.result.error # None
       /\ ml.result.max_confidence = 0
       /\ ml.result.detections = <<>>
       /\ ml.result.models = 0

C24_Witness ==
    /\ ml.pc = "done"
    /\ ml.impl = "pipeline"
    /\ ml.image.kind = "ndarray"
    /\ Len(ml.image.shape) = 4
    /\ ml.image.shape[3] = 3
    /\ \A i \in 1..4 : ml.image.shape[i] # 0
    /\ ml.result.error = "cv2.error"

\* order of the three states
C25_Rank(state) ==
    IF state = "CONFIRMED_THREAT" THEN 2
    ELSE IF state = "POTENTIAL_ANOMALY" THEN 1 ELSE 0

C31_DropIsSilent ==
    [][(srcNext' = srcNext + 1
          /\ (now' - start_time') - srcNext * frame_interval > frame_interval)
       => /\ emitted' = <<>>
          /\ inflight' = inflight
          /\ in_safe_mode' = in_safe_mode
          /\ safe_mode_reason' = safe_mode_reason
          /\ last_recovery_check' = last_recovery_check
          /\ obs'.unavailable = obs.unavailable]_vars

\* a frame has just been dropped while Safe-Mode is active and a recovery
\* attempt would have been due
C31_Witness ==
    /\ pc = "read"
    /\ obs.iter = "dropped"
    /\ emitted = <<>>
    /\ in_safe_mode
    /\ safe_mode_reason \in Reasons
    /\ now - last_recovery_check >= 5 * TicksPerSecond

\* C32: safe_mode_reason is set (not None) if and only if in_safe_mode is
\* true.
C32_ReasonSetIffSafeMode ==
    (safe_mode_reason # None) <=> in_safe_mode

\* Safe-Mode has been entered, left by a recovery, and entered again
C32_Witness ==
    /\ in_safe_mode
    /\ safe_mode_reason \in Reasons
    /\ obs.anySuccess
    /\ obs.callInSafe
    /\ obs.outcome = "fail"
    /\ obs.safeCalls >= 1

\* the first n ndarrays inject_frame was called with and accepted
C33_Accepted(n) == [i \in 1..n |-> Frame(i - 1)]

C34_StopBeforeReadIsNotLost ==
    ~(/\ phone.stops > 0
      /\ ~phone.stopped
      /\ phone.stopPc = "idle"
      /\ phone.pc = "get"
      /\ phone.running
      /\ phone.frame_queue = <<>>)

\* C35: after a read() session that stop() was called in has ended, the
\* buffer holds no stop sentinel.
C35_NoStaleSentinel ==
    (phone.pc = "ended" /\ phone.stopped /\ phone.stopPc = "idle")
    => \A i \in 1..Len(phone.frame_queue) : phone.frame_queue[i] # None

\* C36: in every interleaving of the warmup thread and the scheduler
\* thread, JalDrishtiEngine() is constructed at most once, and the engine
\* reference, once set, is never replaced.
C36_EngineConstructedOnce ==
    [][/\ svc'.built <= 1
       /\ svc.engine # 0 => svc'.engine = svc.engine]_vars

\* C37: a /ws/stream handler that exits changes active_connection only when
\* it is the registered connection itself, so a registered client that is
\* still connected stays registered.
C37_ExitClearsOnlyOwnRegistration ==
    [][\A h \in 1..MaxClients :
          (ws.pc[h] # "closed" /\ ws'.pc[h] = "closed"
           /\ ws'.active_connection # ws.active_connection)
          => ws.active_connection = h]_vars

\* the connections held by a list
Members(seq) == {seq[i] : i \in 1..Len(seq)}

\* C38: when the send to one subscriber fails during a broadcast, exactly
\* that subscriber is removed from active_connections and the broadcast
\* goes on with the next subscriber of its copy, so that at its end a send
\* was attempted to every subscriber of the copy and every one whose send
\* did not fail got the frame; a handler's disconnect of a subscriber the
\* broadcast had already removed leaves the list as it is.
C38_SendFailureRemovesOnlyThatSubscriber ==
    [][/\ \A b \in 1..MaxBroadcasts :
             LET B == vsm.bc[b]
                 A == vsm'.bc[b]
             IN  /\ (B.pc = "send" /\ A.failed # B.failed)
                    => /\ A.failed = B.failed \cup {B.copy[B.i]}
                       /\ A.sent = B.sent
                       /\ vsm'.active_connections =
                              SelectSeq(vsm.active_connections,
                                        LAMBDA c : c # B.copy[B.i])
                       /\ B.i < Len(B.copy)
                          => A.pc = "send" /\ A.i = B.i + 1
                 /\ (B.pc = "send" /\ A.pc = "done")
                    => /\ A.sent \cup A.failed = Members(B.copy)
                       /\ A.sent \cap A.failed = {}
       /\ \A c \in 1..MaxSubscribers :
             (vsm.client[c] = "open" /\ vsm'.client[c] = "gone"
              /\ c \notin Members(vsm.active_connections))
             => vsm'.active_connections = vsm.active_connections]_vars

\* a broadcast to two subscribers has ended: the send to the first failed
\* and removed it, the second got the frame and is still subscribed, and
\* the first one's handler has since called disconnect
C38_Witness ==
    /\ vsm.bc[1].pc = "done"
    /\ vsm.bc[1].copy = <<1, 2>>
    /\ vsm.bc[1].failed = {1}
    /\ vsm.bc[1].sent = {2}
    /\ vsm.client[1] = "gone"
    /\ vsm.client[2] = "open"
    /\ vsm.active_connections = <<2>>

\* C39: once is_shutting_down is set, no broadcast sends a RAW_FRAME to any
\* subscriber, whether it was scheduled or already iterating when the flag
\* was set.
C39_NoRawFrameAfterShutdown ==
    [][vsm.is_shutting_down
       => \A b \in 1..MaxBroadcasts : vsm'.bc[b].sent = vsm.bc[b].sent]_vars

\* C40: for the highest confidence of the boxes of a run, the state chosen
\* by JalDrishtiEngine.infer equals the state returned by
\* JalDrishtiPipeline.classify_confidence.
C40_ClassifiersAgree ==
    (ml.pc = "done" /\ ml.boxes # <<>>)
    => EngineState(MaxConf(0, ml.boxes)) = classify_confidence(ml.boxes).state

====
